---- MODULE Spec2Model ----
(***************************************************************************)
(* Model of app.py: the Azure cost monitor.                                *)
(*                                                                         *)
(* One process loads its configuration from the environment (lines 25-48), *)
(* then serves GET / with home() (lines 135-161), which calls              *)
(* get_current_cost() (lines 85-131) and, on a breach, send_alert()        *)
(* (lines 52-83).  The billing API and the SMTP relay are the environment: *)
(* their replies are chosen nondeterministically.                          *)
(*                                                                         *)
(* Python values are records [k, v, p, s]:                                 *)
(*   k = "none"  None                                                      *)
(*   k = "num"   the float v (whole currency units)                        *)
(*   k = "nan"   the float nan                                             *)
(*   k = "str"   the string p \o s (p is a literal prefix an f-string put  *)
(*               in front of the interpolated s)                           *)
(***************************************************************************)
EXTENDS Integers, Sequences, FiniteSets, TLC

\* ------------------------------------------------------------- bounds
\* Number of GET / requests of a run; they may all be in flight together.
MaxRequests == 2
\* Billing totals range up to DefaultThreshold + MaxOver.
MaxOver == 1

\* ------------------------------------------------------------- values
None == [k |-> "none", v |-> 0, p |-> "", s |-> ""]
NaN == [k |-> "nan", v |-> 0, p |-> "", s |-> ""]
Num(n) == [k |-> "num", v |-> n, p |-> "", s |-> ""]
Str(t) == [k |-> "str", v |-> 0, p |-> "", s |-> t]

\* Python truthiness of an environment value: None and "" are falsy.
Falsy(x) == x.k = "none" \/ (x.k = "str" /\ x.p = "" /\ x.s = "")

\* a > b on floats: false whenever either side is nan.
Gt(a, b) == a.k = "num" /\ b.k = "num" /\ a.v > b.v

\* float(x) raises ValueError on a non-numeric string, TypeError on None.
FloatRaises(x) == x.k \in {"str", "none"}

\* float(x) where it does not raise.
Float(x) == IF x.k = "nan" THEN NaN ELSE Num(x.v)

\* THRESHOLD default of line 33.
DefaultThreshold == 5

\* os.environ.get(name, default)
EnvGet(e, name, default) == IF e[name].k = "none" THEN default ELSE e[name]

\* ------------------------------------------------------------- inputs
Requests == 1 .. MaxRequests

SenderOk == Str("ops@example.com")
\* An address holding a line break, which EmailMessage refuses as a header.
SenderLf == Str("ops@example.com\nBcc: x@example.com")
ReceiverOk == Str("oncall@example.com")
PasswordOk == Str("app-password")
SubscriptionOk == Str("sub-0001")
IdOk == Str("guid")

HasLineBreak(x) == x = SenderLf

Settings ==
    { "TENANT_ID", "CLIENT_ID", "CLIENT_SECRET", "SUBSCRIPTION_ID", "EMAIL_SENDER",
      "EMAIL_PASSWORD", "EMAIL_RECEIVER" }

\* Every setting present and well formed; THRESHOLD is drawn separately.
BaseSettings ==
    [ n \in Settings |->
        CASE n = "SUBSCRIPTION_ID" -> SubscriptionOk
          [] n = "EMAIL_SENDER" -> SenderOk
          [] n = "EMAIL_PASSWORD" -> PasswordOk
          [] n = "EMAIL_RECEIVER" -> ReceiverOk
          [] OTHER -> IdOk ]

\* The base settings, or the base with one setting absent, or with a sender
\* address that holds a line break.
SettingsChoices ==
    { BaseSettings } \cup { [BaseSettings EXCEPT ![n] = None] : n \in Settings }
    \cup { [BaseSettings EXCEPT !["EMAIL_SENDER"] = SenderLf] }

\* THRESHOLD as the environment gives it: absent, non-numeric, or a float literal.
ThresholdSettings == { None, Str("five"), Num(0), NaN }

Environments ==
    { [ n \in Settings \cup {"THRESHOLD"} |-> IF n = "THRESHOLD" THEN th ELSE st[n] ] :
        st \in SettingsChoices, th \in ThresholdSettings }

\* Month-to-date totals the billing API may report.
CostValues == {0} \cup (DefaultThreshold .. (DefaultThreshold + MaxOver))

CurrencyCodes == { Str("USD"), Str("EUR") }

\* What cost_client.query.usage does: raise e, or return a result with these rows.
Raise(e) == [raises |-> TRUE, error |-> e, rows |-> <<>>]
Rows(rs) == [raises |-> FALSE, error |-> "", rows |-> rs]
NoCall == [raises |-> FALSE, error |-> "no call", rows |-> <<>>]

ApiReplies ==
    { Raise("authentication failed"), Raise("connection reset") }
    \cup { Rows(<<>>), Rows(<< <<>> >>), Rows(<< <<Num(DefaultThreshold + 1)>> >>) }
    \cup { Rows(<< <<Num(c), Str("USD")>> >>) : c \in CostValues }
    \cup { Rows(<< <<NaN, Str("USD")>> >>), Rows(<< <<Str("n/a"), Str("USD")>> >>),
           Rows(<< <<Num(0), Str("EUR")>> >>) }

VARIABLES
    environ,                 \* os.environ, fixed for the life of the process
    proc,                    \* "starting", "running" or "crashed"
    THRESHOLD,               \* module global, line 33
    cost_client,             \* module global, lines 44/48: "client", "None" or "unset"
    pc,                      \* pc[r]: where request r is in home()
    cost,                    \* home()'s local cost
    currency,                \* home()'s local currency
    threshold_breached,      \* home()'s local threshold_breached
    alert_triggered_status,  \* home()'s local alert_triggered_status
    response,                \* the JSON body returned for r
    apiReply,                \* what the billing API answered to r's query
    smtp,                    \* r's SMTP traffic: connections made, open now, messages sent
    apiCalls,                \* number of cost_client.query.usage calls made
    alertCalls               \* alertCalls[r]: number of send_alert calls r made

vars == << environ, proc, THRESHOLD, cost_client, pc, cost, currency, threshold_breached,
           alert_triggered_status, response, apiReply, smtp, apiCalls, alertCalls >>

globals == << environ, proc, THRESHOLD, cost_client >>

SUBSCRIPTION_ID == environ.SUBSCRIPTION_ID
EMAIL_SENDER == environ.EMAIL_SENDER
EMAIL_PASSWORD == environ.EMAIL_PASSWORD
EMAIL_RECEIVER == environ.EMAIL_RECEIVER

NoSmtp == [conns |-> 0, open |-> FALSE, sent |-> 0, outcome |-> "none"]

\* response[r] before r is answered.
NoResponse ==
    [ status |-> "", current_cost_mtd |-> << None, None >>, cost_value |-> None,
      threshold_usd |-> None, alert_triggered_now |-> FALSE,
      threshold_breached |-> FALSE, scope |-> None ]

Init ==
    /\ environ \in Environments
    /\ proc = "starting"
    /\ THRESHOLD = None
    /\ cost_client = "unset"
    /\ pc = [r \in Requests |-> "idle"]
    /\ cost = [r \in Requests |-> None]
    /\ currency = [r \in Requests |-> None]
    /\ threshold_breached = [r \in Requests |-> FALSE]
    /\ alert_triggered_status = [r \in Requests |-> FALSE]
    /\ response = [r \in Requests |-> NoResponse]
    /\ apiReply = [r \in Requests |-> NoCall]
    /\ smtp = [r \in Requests |-> NoSmtp]
    /\ apiCalls = 0
    /\ alertCalls = [r \in Requests |-> 0]

\* ------------------------------------------------------------- startup
\* ClientSecretCredential(...) raises ValueError when a setting is missing.
CredentialRaises ==
    Falsy(environ.TENANT_ID) \/ Falsy(environ.CLIENT_ID) \/ Falsy(environ.CLIENT_SECRET)

\* Module import, lines 25-48.  float() at line 33 is outside any try.
Startup ==
    /\ proc = "starting"
    /\ LET raw == EnvGet(environ, "THRESHOLD", Num(DefaultThreshold)) IN
         IF FloatRaises(raw)
         THEN /\ proc' = "crashed"
              /\ UNCHANGED << THRESHOLD, cost_client >>
         ELSE /\ proc' = "running"
              /\ THRESHOLD' = Float(raw)
              /\ cost_client' = IF CredentialRaises THEN "None" ELSE "client"
    /\ UNCHANGED << environ, pc, cost, currency, threshold_breached, alert_triggered_status,
                    response, apiReply, smtp, apiCalls, alertCalls >>

\* ------------------------------------------------------------- get_current_cost
\* Line 87: not cost_client or not SUBSCRIPTION_ID.
ClientUnusable == cost_client = "None" \/ Falsy(SUBSCRIPTION_ID)

\* f"API Error: {str(e)}"
ApiError(e) == [k |-> "str", v |-> 0, p |-> "API Error: ", s |-> e]

\* Line 89: the return for an unusable client or a missing subscription id.
UnconfiguredResult == [cost |-> Num(0), currency |-> Str("USD")]

\* A variant that reports a failure under the default currency code.
ExceptResultAsCurrency(e) == [cost |-> Num(0), currency |-> Str("USD")]

\* Lines 128-131: the except clause.
ExceptResult(e) == [cost |-> Num(0), currency |-> ApiError(e)]

\* A variant that reports an empty result the way a failure is reported.
NoRowsAsError == [cost |-> Num(0), currency |-> ApiError("no rows")]

\* Line 126: the return when the query gave no rows.
NoRowsResult == [cost |-> Num(0), currency |-> Str("USD")]

\* Line 120: result.rows and result.rows[0]
HasFirstRow(rows) == Len(rows) > 0 /\ Len(rows[1]) > 0

\* Lines 113-131: the try block, given what query.usage did.
TryResult(reply) ==
    IF reply.raises THEN ExceptResult(reply.error)
    ELSE IF HasFirstRow(reply.rows)
         THEN IF FloatRaises(reply.rows[1][1])
              THEN ExceptResult("could not convert to float")
              ELSE IF Len(reply.rows[1]) < 2
                   THEN ExceptResult("list index out of range")
                   ELSE [cost |-> Float(reply.rows[1][1]), currency |-> reply.rows[1][2]]
         ELSE NoRowsResult

\* home() line 138 receives get_current_cost()'s pair.
Fetched(r, reply, res) ==
    /\ apiReply' = [apiReply EXCEPT ![r] = reply]
    /\ cost' = [cost EXCEPT ![r] = res.cost]
    /\ currency' = [currency EXCEPT ![r] = res.currency]
    /\ pc' = [pc EXCEPT ![r] = "fetched"]

\* A variant that gives up the client after a failed query.
get_current_cost_dropping_client(r) ==
    /\ proc = "running"
    /\ pc[r] = "idle"
    /\ IF ClientUnusable
       THEN /\ Fetched(r, NoCall, UnconfiguredResult)
            /\ UNCHANGED << apiCalls, cost_client >>
       ELSE \E reply \in ApiReplies :
                /\ apiCalls' = apiCalls + 1
                /\ Fetched(r, reply, TryResult(reply))
                /\ cost_client' = IF reply.raises THEN "None" ELSE cost_client
    /\ UNCHANGED << environ, proc, THRESHOLD, threshold_breached, alert_triggered_status,
                    response, smtp, alertCalls >>

\* Request r arrives and home() calls get_current_cost(), lines 85-131.
get_current_cost(r) ==
    /\ proc = "running"
    /\ pc[r] = "idle"
    /\ IF ClientUnusable
       THEN /\ Fetched(r, NoCall, UnconfiguredResult)
            /\ UNCHANGED apiCalls
       ELSE \E reply \in ApiReplies :
                /\ apiCalls' = apiCalls + 1
                /\ Fetched(r, reply, TryResult(reply))
    /\ UNCHANGED << globals, threshold_breached, alert_triggered_status, response, smtp,
                    alertCalls >>

\* ------------------------------------------------------------- home and send_alert
\* The JSON body of lines 151-161 (last_checked_utc, the wall clock, is left out);
\* current_cost_mtd is the pair the f-string joins.
JsonBody(c, cur, breached, alerted) ==
    [ status |-> "Running", current_cost_mtd |-> << cur, c >>, cost_value |-> c,
      threshold_usd |-> THRESHOLD, alert_triggered_now |-> alerted,
      threshold_breached |-> breached, scope |-> SUBSCRIPTION_ID ]

\* A variant that starts from an alert already reported.
InitialAlertStatusSet == TRUE

\* Line 139.
InitialAlertStatus == FALSE

\* A variant that compares with >=.
ThresholdBreachedInclusive(c, t) == c.k = "num" /\ t.k = "num" /\ c.v >= t.v

\* Line 142: cost > THRESHOLD.
ThresholdBreached(c, t) == Gt(c, t)

\* A variant with a cooldown: no further alert once one has been sent.
ShouldAlertOnce(breached) == breached /\ \A q \in Requests : smtp[q].sent = 0

\* Line 144: if threshold_breached.
ShouldAlert(breached) == breached

\* A variant that does not look at the password.
EmailConfiguredNoPassword == ~(Falsy(EMAIL_SENDER) \/ Falsy(EMAIL_RECEIVER))

\* Line 54, negated: all three email settings are present.
EmailConfigured == ~(Falsy(EMAIL_SENDER) \/ Falsy(EMAIL_PASSWORD) \/ Falsy(EMAIL_RECEIVER))

\* Lines 58-71: setting From/To raises ValueError on a value with a line break.
HeaderRaises == HasLineBreak(EMAIL_SENDER) \/ HasLineBreak(EMAIL_RECEIVER)

\* A variant that leaves the connection open.
SmtpExitLeak(c) == c

\* Leaving the with block of line 75: SMTP.__exit__ closes the connection.
SmtpExit(c) == [c EXCEPT !.open = FALSE]

\* send_alert returned `alerted` (or was not called); home() builds the response.
Return(r, breached, alerted) ==
    /\ alert_triggered_status' = [alert_triggered_status EXCEPT ![r] = alerted]
    /\ response' = [response EXCEPT ![r] = JsonBody(cost[r], currency[r], breached, alerted)]
    /\ pc' = [pc EXCEPT ![r] = "done"]

\* home() lines 139-149 and, on a breach, send_alert() up to the connect of line 75.
home(r) ==
    /\ pc[r] = "fetched"
    /\ LET breached == ThresholdBreached(cost[r], THRESHOLD) IN
         /\ threshold_breached' = [threshold_breached EXCEPT ![r] = breached]
         /\ IF ~ShouldAlert(breached)
            THEN /\ Return(r, breached, InitialAlertStatus)
                 /\ UNCHANGED alertCalls
            ELSE /\ alertCalls' = [alertCalls EXCEPT ![r] = @ + 1]
                 /\ IF ~EmailConfigured
                    THEN Return(r, breached, FALSE)
                    ELSE IF HeaderRaises
                         THEN /\ pc' = [pc EXCEPT ![r] = "error500"]
                              /\ alert_triggered_status' =
                                     [alert_triggered_status EXCEPT ![r] = InitialAlertStatus]
                              /\ UNCHANGED response
                         ELSE /\ pc' = [pc EXCEPT ![r] = "connect"]
                              /\ alert_triggered_status' =
                                     [alert_triggered_status EXCEPT ![r] = InitialAlertStatus]
                              /\ UNCHANGED response
    /\ UNCHANGED << globals, cost, currency, apiReply, smtp, apiCalls >>

\* smtplib.SMTP_SSL("smtp.gmail.com", 465), line 75: connects, or raises.
smtp_connect(r) ==
    /\ pc[r] = "connect"
    /\ \E ok \in BOOLEAN :
         IF ok
         THEN /\ smtp' = [smtp EXCEPT ![r] = [@ EXCEPT !.conns = @ + 1, !.open = TRUE]]
              /\ pc' = [pc EXCEPT ![r] = "login"]
              /\ UNCHANGED << alert_triggered_status, response >>
         ELSE /\ smtp' = [smtp EXCEPT ![r] = [@ EXCEPT !.outcome = "connect failed"]]
              /\ Return(r, threshold_breached[r], FALSE)
    /\ UNCHANGED << globals, cost, currency, threshold_breached, apiReply, apiCalls,
                    alertCalls >>

\* smtp.login(...), line 76: succeeds, or raises and the with block is left.
smtp_login(r) ==
    /\ pc[r] = "login"
    /\ \E ok \in BOOLEAN :
         IF ok
         THEN /\ pc' = [pc EXCEPT ![r] = "send"]
              /\ UNCHANGED << smtp, alert_triggered_status, response >>
         ELSE /\ smtp' = [smtp EXCEPT ![r] = SmtpExit([@ EXCEPT !.outcome = "login failed"])]
              /\ Return(r, threshold_breached[r], FALSE)
    /\ UNCHANGED << globals, cost, currency, threshold_breached, apiReply, apiCalls,
                    alertCalls >>

\* smtp.send_message(msg), line 77, then the with block is left, lines 78-83.
smtp_send_message(r) ==
    /\ pc[r] = "send"
    /\ \E ok \in BOOLEAN :
         /\ smtp' = [smtp EXCEPT ![r] =
                SmtpExit([@ EXCEPT !.sent = IF ok THEN @ + 1 ELSE @,
                                   !.outcome = IF ok THEN "sent" ELSE "send failed"])]
         /\ Return(r, threshold_breached[r], ok)
    /\ UNCHANGED << globals, cost, currency, threshold_breached, apiReply, apiCalls,
                    alertCalls >>

Next ==
    \/ Startup
    \/ \E r \in Requests : get_current_cost(r)
    \/ \E r \in Requests : home(r)
    \/ \E r \in Requests : smtp_connect(r)
    \/ \E r \in Requests : smtp_login(r)
    \/ \E r \in Requests : smtp_send_message(r)

Spec == Init /\ [][Next]_vars

\* ------------------------------------------------------------- properties
Answered(r) == pc[r] = "done"

\* r is past the comparison of line 142.
Compared(r) == pc[r] \notin {"idle", "fetched"}

RECURSIVE SumOver(_, _)
SumOver(f, S) == IF S = {} THEN 0 ELSE LET x == CHOOSE y \in S : TRUE IN f[x] + SumOver(f, S \ {x})

\* a <= b on floats: false whenever either side is nan.
Le(a, b) == a.k = "num" /\ b.k = "num" /\ a.v <= b.v

\* Some email setting is None or empty.
EmailSettingMissing ==
    \/ environ.EMAIL_SENDER \in {None, Str("")}
    \/ environ.EMAIL_PASSWORD \in {None, Str("")}
    \/ environ.EMAIL_RECEIVER \in {None, Str("")}

\* The query raised, or reading its first row raises.
FetchFailed(reply) ==
    \/ reply.raises
    \/ /\ Len(reply.rows) > 0
       /\ Len(reply.rows[1]) > 0
       /\ (reply.rows[1][1].k \notin {"num", "nan"} \/ Len(reply.rows[1]) = 1)

\* The amount r's own reply carries.
OwnCost(r) ==
    IF apiReply[r] # NoCall /\ ~FetchFailed(apiReply[r]) /\ Len(apiReply[r].rows) > 0
       /\ Len(apiReply[r].rows[1]) > 0
    THEN apiReply[r].rows[1][1]
    ELSE Num(0)

\* C1: threshold_breached is true exactly when cost > THRESHOLD, and a cost equal
\* to the threshold does not breach.
C1_StrictBreach ==
    \A r \in Requests :
        /\ Compared(r) =>
             /\ threshold_breached[r] <=> Gt(cost[r], THRESHOLD)
             /\ cost[r] = THRESHOLD => ~threshold_breached[r]
        /\ Answered(r) =>
             /\ response[r].cost_value = cost[r]
             /\ response[r].threshold_breached <=> Gt(response[r].cost_value, THRESHOLD)
             /\ response[r].cost_value = THRESHOLD => ~response[r].threshold_breached

C1_Witness ==
    \E r, q \in Requests :
        /\ Answered(r) /\ response[r].cost_value = THRESHOLD /\ ~response[r].threshold_breached
        /\ Answered(q) /\ response[q].threshold_breached

\* C2: a request whose cost does not exceed the threshold never calls send_alert,
\* opens no SMTP connection, sends nothing, and answers alert_triggered_now = false.
C2_NoAlertWithoutBreach ==
    \A r \in Requests :
        (Compared(r) /\ ~Gt(cost[r], THRESHOLD)) =>
            /\ alertCalls[r] = 0
            /\ smtp[r] = NoSmtp
            /\ Answered(r)
            /\ response[r].alert_triggered_now = FALSE

C2_Witness ==
    \E r \in Requests :
        /\ Answered(r) /\ cost[r].k = "num" /\ cost[r].v > 0 /\ ~Gt(cost[r], THRESHOLD)
        /\ ~EmailSettingMissing

\* C3: on a breach alert_triggered_now is send_alert's result: true exactly when the
\* three email settings are present and login and send succeeded; with a setting
\* missing it is false and no connection is attempted; with the settings present
\* and the transport or the login failing it is false.
C3_AlertOutcome ==
    \A r \in Requests :
        /\ EmailSettingMissing => (smtp[r] = NoSmtp /\ pc[r] \notin {"connect", "login", "send"})
        /\ (Answered(r) /\ response[r].threshold_breached) =>
             /\ alertCalls[r] = 1
             /\ response[r].alert_triggered_now = alert_triggered_status[r]
             /\ response[r].alert_triggered_now <=>
                    (~EmailSettingMissing /\ smtp[r].outcome = "sent" /\ smtp[r].sent = 1)
             /\ EmailSettingMissing => ~response[r].alert_triggered_now
             /\ smtp[r].outcome \in {"connect failed", "login failed", "send failed"} =>
                    ~response[r].alert_triggered_now

C3_Witness ==
    \E r, q \in Requests :
        /\ Answered(r) /\ response[r].threshold_breached /\ response[r].alert_triggered_now
        /\ Answered(q) /\ response[q].threshold_breached /\ smtp[q].outcome = "login failed"

\* C4: with cost_client None or no subscription id, get_current_cost makes no API
\* call and returns 0.0 with a marker that is not a currency code.
C4_UnconfiguredMarker ==
    \A r \in Requests :
        (pc[r] # "idle" /\ (cost_client = "None" \/ environ.SUBSCRIPTION_ID \in {None, Str("")})) =>
            /\ apiReply[r] = NoCall
            /\ apiCalls = 0
            /\ cost[r] = Num(0)
            /\ currency[r] \notin CurrencyCodes

\* C5: a query that raises, or a result whose first row cannot be read, gives
\* 0.0 with an error descriptor in place of the currency; home() carries on with
\* that pair as with any other, and no error response comes from the fetch.
C5_FetchNeverRaises ==
    \A r \in Requests :
        /\ (pc[r] # "idle" /\ FetchFailed(apiReply[r])) =>
             /\ cost[r] = Num(0)
             /\ currency[r].k = "str" /\ currency[r].p = "API Error: "
             /\ currency[r] \notin CurrencyCodes
             /\ Answered(r) =>
                  /\ response[r].status = "Running"
                  /\ response[r].cost_value = Num(0)
                  /\ response[r].current_cost_mtd = << currency[r], Num(0) >>
                  /\ response[r].threshold_breached <=> Gt(Num(0), THRESHOLD)
        /\ pc[r] = "error500" => alertCalls[r] = 1

C5_Witness ==
    \E r, q \in Requests :
        /\ Answered(r) /\ apiReply[r].raises
        /\ Answered(q) /\ ~apiReply[q].raises /\ FetchFailed(apiReply[q])

\* C6: a query that succeeds with zero rows gives exactly (0.0, "USD"), a pair no
\* failed query gives; with 0.0 <= THRESHOLD the request does not breach and no
\* alert is dispatched.
C6_NoRows ==
    \A r \in Requests :
        (pc[r] # "idle" /\ apiReply[r] = Rows(<<>>)) =>
            /\ cost[r] = Num(0)
            /\ currency[r] = Str("USD")
            /\ \A q \in Requests :
                 (pc[q] # "idle" /\ apiReply[q].raises) =>
                     << cost[q], currency[q] >> # << cost[r], currency[r] >>
            /\ (Compared(r) /\ Le(Num(0), THRESHOLD)) =>
                 /\ Answered(r)
                 /\ ~response[r].threshold_breached
                 /\ ~response[r].alert_triggered_now
                 /\ alertCalls[r] = 0
                 /\ smtp[r] = NoSmtp

C6_Witness ==
    \E r, q \in Requests :
        /\ Answered(r) /\ apiReply[r] = Rows(<<>>) /\ Le(Num(0), THRESHOLD)
        /\ pc[q] # "idle" /\ apiReply[q].raises

\* C7: the number of send_alert calls equals the number of requests handled so far
\* whose cost exceeded the threshold, whatever earlier alerts did.
C7_NoDeduplication ==
    SumOver(alertCalls, Requests)
        = Cardinality({ r \in Requests : Compared(r) /\ Gt(cost[r], THRESHOLD) })

C7_Witness ==
    \E r, q \in Requests :
        /\ r # q
        /\ Answered(r) /\ smtp[r].outcome = "sent"
        /\ Answered(q) /\ smtp[q].outcome = "sent"
        /\ SumOver(alertCalls, Requests) = 2

\* C8: the process always starts and every request is answered with the 200 JSON
\* body: no configuration, API outcome or SMTP outcome ends in a crash or an
\* HTTP error.
C8_AlwaysResponds ==
    /\ proc # "crashed"
    /\ \A r \in Requests : pc[r] # "error500"

\* C9: a send_alert call opens at most one connection and sends at most one
\* message on it, exactly one when login and send succeed and none when login
\* fails; the connection is closed whenever send_alert has returned.
C9_ConnectionScoped ==
    \A r \in Requests :
        /\ smtp[r].conns <= 1
        /\ smtp[r].conns <= alertCalls[r]
        /\ smtp[r].sent <= smtp[r].conns
        /\ smtp[r].outcome = "sent" <=> smtp[r].sent = 1
        /\ smtp[r].outcome = "login failed" => smtp[r].sent = 0
        /\ smtp[r].open => pc[r] \in {"login", "send"}
        /\ pc[r] \in {"login", "send"} => (smtp[r].open /\ smtp[r].conns = 1)
        /\ Answered(r) => ~smtp[r].open

C9_Witness ==
    \E r, q \in Requests :
        /\ Answered(r) /\ smtp[r].outcome = "sent" /\ smtp[r].conns = 1
        /\ Answered(q) /\ smtp[q].outcome \in {"login failed", "send failed"}
             /\ smtp[q].conns = 1

\* Every answer is the one r's own reply, the configuration and r's own SMTP
\* outcome give.
C10_OwnAnswer ==
    \A r \in Requests :
        Answered(r) =>
            /\ response[r].cost_value = OwnCost(r)
            /\ response[r].threshold_usd = THRESHOLD
            /\ response[r].threshold_breached <=> Gt(OwnCost(r), THRESHOLD)
            /\ response[r].alert_triggered_now <=> (smtp[r].outcome = "sent")

\* Once the process runs, no step changes the configuration or the billing
\* client, nor an answer already given.
C10_ConfigKept ==
    proc = "running" =>
        /\ globals' = globals
        /\ \A r \in Requests : Answered(r) => response'[r] = response[r]

\* C10: requests do not interfere: no request changes the configuration or the
\* billing client, and each answer depends only on the request's own fetch, the
\* configuration and its own dispatch outcome.
C10_Stateless == [](C10_OwnAnswer) /\ [][C10_ConfigKept]_vars

C10_Witness ==
    \E r, q \in Requests :
        /\ Answered(r) /\ ~response[r].threshold_breached
        /\ pc[q] = "login" /\ cost[q] # response[r].cost_value
        /\ apiCalls = 2
====
